---- MODULE Spec2Model ----
(***************************************************************************)
(* Model of src/agent.py: the tool registry (TOOLS), the dispatcher         *)
(* (execute_tool) and the orchestration loop (ToolAgent.chat,               *)
(* ToolAgent.clear_history) as driven by the interactive loop of main().    *)
(*                                                                         *)
(* Texts are sequences of tokens: an f-string such as                       *)
(* f"工具执行错误: {e}" is the sequence <<UNTOOL_ERR, e>> of its fixed      *)
(* prefix and the embedded value.                                           *)
(***************************************************************************)
EXTENDS Integers, Sequences, FiniteSets, TLC

VARIABLES
    messages,    \* self.messages: the conversation log
    pc,          \* where the agent is: "idle" (main awaits input), "call", "dispatch"
    iteration,   \* the loop variable of `for iteration in range(max_iterations)`
    pending,     \* message.tool_calls of the response being dispatched
    idx,         \* position of the inner for loop in pending (1-based)
    sent,        \* the messages= argument of the last completions.create call
    returned,    \* value returned by the last finished chat (<<>> if it raised)
    outcome,     \* how the last chat ended: "none" (it has not), "final", "limit",
                 \* "model_error" or "dispatch_error" (the exception left chat)
    calls,       \* completions.create calls made by the current/last chat
    chats,       \* chat invocations started so far
    budget,      \* what is left of the session's bound
    last,        \* observation of the last pass of the inner for loop
    start,       \* Len(self.messages) when the current/last chat was entered
    at,          \* index in self.messages of the last tool-call turn (0: none)
    prev,        \* the preceding chat's outcome and start, and the log the
                 \* current chat found, as they were when it was entered
    tools,       \* self.tools: the declarations build_openai_tools returned
    sent_kwargs  \* the tools= and tool_choice= arguments of the last
                 \* completions.create call

vars == <<messages, pc, iteration, pending, idx, sent, returned, outcome,
          calls, chats, budget, last, start, at, prev, tools, sent_kwargs>>

(***************************** bounds **************************************)
\* A session is bounded by a budget: every model call costs one unit and
\* every deviation of a response from the plain one (an extra request, an
\* unregistered name, a payload that is not an object with the handler's
\* arguments, a handler that raises) costs FaultCost units.
MaxBudget == 12
FaultCost == 3
\* Requests in one model response.
MaxCalls == 2
\* chat invocations in one session.
MaxChats == 2

(************************** program constants ******************************)
max_iterations == 10

\* TOOLS.keys()
TOOLS == {"read", "write", "edit", "glob", "grep", "bash"}

\* TOOLS.items(), in the order of the dict: name, description and the
\* parameters in the order of their dict, each with its type, a text whose
\* last character may be the optional marker "?".
TOOLS_items == <<
    [name |-> "read",
     description |-> "Read file with line numbers (file path, not directory)",
     params |-> << <<"path", <<"string">> >>, <<"offset", <<"number", "?">> >>,
                   <<"limit", <<"number", "?">> >> >>],
    [name |-> "write",
     description |-> "Write content to file",
     params |-> << <<"path", <<"string">> >>, <<"content", <<"string">> >> >>],
    [name |-> "edit",
     description |-> "Replace old with new in file (old must be unique unless all=true)",
     params |-> << <<"path", <<"string">> >>, <<"old", <<"string">> >>,
                   <<"new", <<"string">> >>, <<"all", <<"boolean", "?">> >> >>],
    [name |-> "glob",
     description |-> "Find files by pattern, sorted by mtime",
     params |-> << <<"pat", <<"string">> >>, <<"path", <<"string", "?">> >> >>],
    [name |-> "grep",
     description |-> "Search files for regex pattern",
     params |-> << <<"pat", <<"string">> >>, <<"path", <<"string", "?">> >> >>],
    [name |-> "bash",
     description |-> "Run shell command",
     params |-> << <<"cmd", <<"string">> >> >>] >>

\* Fixed texts of the program.
SYSTEM_PROMPT == <<"system_prompt">>
LIMIT_MESSAGE == <<"max_iterations_reached">>       \* line 384
UNKNOWN_TOOL  == "error_unknown_tool"               \* f"错误: 未知工具 {name}"
TOOL_ERROR    == "tool_execution_error"             \* f"工具执行错误: {e}"

(************************** the environment ********************************)
\* What the user types (main strips it and skips the empty line).
UserInputs == {<<"what is 2+2">>}
\* Content of a model response without tool calls.
FinalContents == {<<"4">>}
\* Names a model response may request: a registered and an unregistered one.
RequestNames == {"read", "delete_universe"}
PlainName == "read"
\* Argument payloads (tool_call.function.arguments), one per class of text
\* json.loads tells apart:
\*   "object"     an object holding the handler's arguments
\*   "empty"      the text {}
\*   "nonobject"  valid JSON that is no object: [1], 5, null, "s"
\*   "malformed"  no JSON at all: json.loads raises JSONDecodeError
\*   "overflow"   JSON text on which json.loads raises another exception
\*                (ValueError for an integer literal past the digit limit,
\*                RecursionError for deep nesting)
Payloads == {"object", "empty", "nonobject", "malformed", "overflow"}
PlainPayload == "object"
\* Call identifiers: the endpoint numbers the requests of one response.
CallId(i) == <<"call", i>>

(************************** pure functions *********************************)
\* json.loads on a payload: the exception it raises ("none" if it returns)
\* and the value it returns: "kwargs" (a dict with entries), "empty_dict"
\* ({}), "nondict" (a list, number, string or None).
json_loads(arguments) ==
    CASE arguments = "object"    -> [exc |-> "none", value |-> "kwargs"]
      [] arguments = "empty"     -> [exc |-> "none", value |-> "empty_dict"]
      [] arguments = "nonobject" -> [exc |-> "none", value |-> "nondict"]
      [] arguments = "malformed" -> [exc |-> "JSONDecodeError", value |-> "none"]
      [] arguments = "overflow"  -> [exc |-> "ValueError", value |-> "none"]

\* Lines 361-364: try: tool_args = json.loads(...) except JSONDecodeError:
\* tool_args = {}.  Any other exception leaves the try statement uncaught.
parse_arguments(arguments) ==
    LET r == json_loads(arguments) IN
    IF r.exc = "none" THEN [raised |-> FALSE, tool_args |-> r.value]
    ELSE IF r.exc = "JSONDecodeError"
         THEN [raised |-> FALSE, tool_args |-> "empty_dict"]
         ELSE [raised |-> TRUE, tool_args |-> "none"]

\* func(**arguments) for a registered tool.  A value that is no mapping
\* cannot be unpacked (TypeError); every handler of TOOLS has a parameter
\* without default (path, pat, cmd), so the empty dict fails to bind
\* (TypeError); with entries the call binds and returns the handler's text
\* (a short one, one of exactly 500 characters or one of 501), or fails to
\* bind (an unexpected or missing keyword), as `h` says.
call_handler(name, arguments, h) ==
    CASE arguments = "nondict"    -> [raised |-> TRUE, value |-> "not_a_mapping"]
      [] arguments = "empty_dict" -> [raised |-> TRUE, value |-> "missing_argument"]
      [] OTHER ->
           CASE h = "raise"      -> [raised |-> TRUE, value |-> "bad_arguments"]
             [] h = "return_500" -> [raised |-> FALSE, value |-> "tool_output_500"]
             [] h = "return_501" -> [raised |-> FALSE, value |-> "tool_output_501"]
             [] OTHER            -> [raised |-> FALSE, value |-> "tool_output"]

\* execute_tool without the try statement around the handler call.
execute_tool_nocatch(name, arguments, h) ==
    IF name \notin TOOLS
    THEN [raised |-> FALSE, invoked |-> FALSE, result |-> <<UNKNOWN_TOOL, name>>]
    ELSE LET r == call_handler(name, arguments, h) IN
         IF r.raised
         THEN [raised |-> TRUE, invoked |-> TRUE, result |-> <<>>]
         ELSE [raised |-> FALSE, invoked |-> TRUE, result |-> <<r.value>>]

\* execute_tool without the membership test: TOOLS[name] raises KeyError.
execute_tool_nocheck(name, arguments, h) ==
    IF name \notin TOOLS
    THEN [raised |-> TRUE, invoked |-> FALSE, result |-> <<>>]
    ELSE LET r == call_handler(name, arguments, h) IN
         IF r.raised
         THEN [raised |-> FALSE, invoked |-> TRUE, result |-> <<TOOL_ERROR, r.value>>]
         ELSE [raised |-> FALSE, invoked |-> TRUE, result |-> <<r.value>>]

\* execute_tool, lines 263-272.  raised: an exception leaves execute_tool;
\* invoked: the handler was called.
execute_tool(name, arguments, h) ==
    IF name \notin TOOLS
    THEN [raised |-> FALSE, invoked |-> FALSE, result |-> <<UNKNOWN_TOOL, name>>]
    ELSE LET r == call_handler(name, arguments, h) IN
         IF r.raised
         THEN [raised |-> FALSE, invoked |-> TRUE, result |-> <<TOOL_ERROR, r.value>>]
         ELSE [raised |-> FALSE, invoked |-> TRUE, result |-> <<r.value>>]

(************************** the tool schema ********************************)
\* param_type.endswith("?") and param_type[:-1], lines 234-235.
endswith_marker(param_type) ==
    Len(param_type) > 0 /\ param_type[Len(param_type)] = "?"
strip_marker(param_type) ==
    IF endswith_marker(param_type)
    THEN SubSeq(param_type, 1, Len(param_type) - 1)
    ELSE param_type

\* A required list that takes every parameter, marked or not.
required_of_all(params) == [i \in 1..Len(params) |-> params[i][1]]

\* The `required` list a tool's loop builds, lines 231-237: the names of the
\* parameters whose type has no marker, in the order of the dict.
RECURSIVE required_of(_)
required_of(params) ==
    IF params = <<>> THEN <<>>
    ELSE IF endswith_marker(params[1][2])
         THEN required_of(Tail(params))
         ELSE <<params[1][1]>> \o required_of(Tail(params))

\* The `properties` dict a tool's loop builds, lines 230-244: an entry for
\* every parameter whose type, without the marker, is string, number or
\* boolean; a later parameter of the same name replaces an earlier one.
properties_of(params) ==
    LET known == {i \in 1..Len(params) :
                    strip_marker(params[i][2]) \in
                        {<<"string">>, <<"number">>, <<"boolean">>}}
        latest(n) == CHOOSE i \in known :
                        /\ params[i][1] = n
                        /\ \A j \in known : params[j][1] = n => j <= i
    IN [n \in {params[i][1] : i \in known} |->
          [type |-> strip_marker(params[latest(n)][2])[1]]]

\* build_openai_tools, lines 226-260.
build_openai_tools ==
    [i \in 1..Len(TOOLS_items) |->
       [type |-> "function",
        function |->
          [name |-> TOOLS_items[i].name,
           description |-> TOOLS_items[i].description,
           parameters |->
             [type |-> "object",
              properties |-> properties_of(TOOLS_items[i].params),
              required |-> required_of(TOOLS_items[i].params)]]]]

(************************** display of a result ****************************)
\* The length above which a result is cut for display, line 374.
DISPLAY_LIMIT == 500

\* len() of a text: the two long handler outputs have 500 and 501
\* characters, every other token of the model is one character.
TokenLen(token) ==
    CASE token = "tool_output_500" -> DISPLAY_LIMIT
      [] token = "tool_output_501" -> DISPLAY_LIMIT + 1
      [] OTHER -> 1
RECURSIVE TextLen(_)
TextLen(text) == IF text = <<>> THEN 0 ELSE TokenLen(Head(text)) + TextLen(Tail(text))

\* Line 374: result[:500] + "..." if len(result) > 500 else result.
display_result(result) ==
    IF TextLen(result) > DISPLAY_LIMIT
    THEN <<"[:500]">> \o result \o <<"...">>
    ELSE result

(************************** turns of the log *******************************)
\* A tool turn that stores the text cut for display.
ToolTurn_display(tool_call_id, result) ==
    [role |-> "tool", tool_call_id |-> tool_call_id, content |-> display_result(result)]

\* An assistant turn that stores no content.
AssistantTurn_nocontent(content) == [role |-> "assistant", content |-> <<>>]

UserTurn(user_input) == [role |-> "user", content |-> user_input]           \* line 314
AssistantTurn(content) == [role |-> "assistant", content |-> content]       \* line 333
ToolCallTurn(content, tool_calls) ==                                        \* lines 340-356
    [role |-> "assistant", content |-> content, tool_calls |-> tool_calls]
ToolTurn(tool_call_id, result) ==                                           \* lines 378-380
    [role |-> "tool", tool_call_id |-> tool_call_id, content |-> result]

HasToolCalls(m) == m.role = "assistant" /\ "tool_calls" \in DOMAIN m

(************************** responses of the endpoint **********************)
\* Deviations of a list of requests from the plain single request.
Faults(reqs) ==
    (Len(reqs) - 1)
    + Cardinality({i \in 1..Len(reqs) : reqs[i].name # PlainName})
    + Cardinality({i \in 1..Len(reqs) : reqs[i].arguments # PlainPayload})

\* The tool-call lists a response may carry within a budget of b units.
ToolCallLists(b) ==
    UNION { { [i \in 1..n |-> [id |-> CallId(i), name |-> f[i].name,
                                arguments |-> f[i].arguments]] :
              f \in { g \in [1..n -> [name : RequestNames, arguments : Payloads]] :
                      FaultCost * Faults(g) <= b } } :
            n \in 1..MaxCalls }

\* The behaviours of a handler whose call binds: within budget it raises or
\* returns a long text.
HandlerOutcomes(name, tool_args, b) ==
    IF name \in TOOLS /\ tool_args = "kwargs" /\ b >= FaultCost
    THEN {"return", "raise", "return_500", "return_501"} ELSE {"return"}

NoDispatch == [name |-> "none", arguments |-> "none", tool_args |-> "none",
               invoked |-> FALSE, raised |-> FALSE, result |-> <<>>, h |-> "none",
               display |-> <<>>]

(***************************** the agent ***********************************)
Init ==
    /\ messages = <<>>                 \* line 295
    /\ pc = "idle"
    /\ iteration = 0
    /\ pending = <<>>
    /\ idx = 0
    /\ sent = <<>>
    /\ returned = <<>>
    /\ outcome = "none"
    /\ calls = 0
    /\ chats = 0
    /\ budget = MaxBudget
    /\ last = NoDispatch
    /\ start = 0
    /\ at = 0
    /\ prev = [outcome |-> "none", log |-> <<>>, start |-> 0]
    /\ tools = build_openai_tools       \* line 294
    /\ sent_kwargs = [tools |-> <<>>, tool_choice |-> "none"]

\* A loop variable that is not set anew: it keeps the value the last chat left.
range_first_carried == iteration

\* First value of `for iteration in range(max_iterations)`, line 318.
range_first == 0

\* main reads a line and calls agent.chat(user_input): lines 457, 314-318.
ChatBegin ==
    /\ pc = "idle"
    /\ chats < MaxChats
    /\ budget >= 1
    /\ \E user_input \in UserInputs :
         messages' = Append(messages, UserTurn(user_input))
    /\ iteration' = range_first
    /\ pc' = "call"
    /\ calls' = 0
    /\ chats' = chats + 1
    /\ outcome' = "none"
    /\ returned' = <<>>
    /\ last' = NoDispatch
    /\ start' = Len(messages)
    /\ prev' = [outcome |-> outcome, log |-> messages, start |-> start]
    /\ UNCHANGED <<pending, idx, sent, budget, at>>
    /\ UNCHANGED <<tools, sent_kwargs>>

\* A request without the system message.
Request_nosystem == messages

\* The tools= and tool_choice= arguments of completions.create, lines 324-325.
RequestKwargs == [tools |-> tools, tool_choice |-> "auto"]

\* The messages= argument of completions.create, lines 322-323.
Request == <<[role |-> "system", content |-> SYSTEM_PROMPT]>> \o messages

\* A failed model call that chat catches: the loop makes the call again.
ModelCallFails_retry ==
    /\ pc = "call" /\ iteration < max_iterations /\ budget >= 1
    /\ sent' = Request
    /\ calls' = calls + 1
    /\ budget' = budget - 1
    /\ pc' = "call"
    /\ outcome' = "model_error"
    /\ UNCHANGED <<messages, iteration, pending, idx, returned, chats, last,
                   start, at, prev>>
    /\ sent_kwargs' = RequestKwargs
    /\ UNCHANGED tools

\* A failed model call that takes the chat's turns out of the log again.
ModelCallFails_rollback ==
    /\ pc = "call" /\ iteration < max_iterations /\ budget >= 1
    /\ sent' = Request
    /\ calls' = calls + 1
    /\ budget' = budget - 1
    /\ pc' = "idle"
    /\ outcome' = "model_error"
    /\ messages' = SubSeq(messages, 1, start)
    /\ UNCHANGED <<iteration, pending, idx, returned, chats, last,
                   start, at, prev>>
    /\ sent_kwargs' = RequestKwargs
    /\ UNCHANGED tools

\* completions.create raises, or the response cannot be read (line 328):
\* the exception leaves chat and main prints it (lines 463-464).
ModelCallFails ==
    /\ pc = "call" /\ iteration < max_iterations /\ budget >= 1
    /\ sent' = Request
    /\ calls' = calls + 1
    /\ budget' = budget - 1
    /\ pc' = "idle"
    /\ outcome' = "model_error"
    /\ UNCHANGED <<messages, iteration, pending, idx, returned, chats, last,
                   start, at, prev>>
    /\ sent_kwargs' = RequestKwargs
    /\ UNCHANGED tools

\* A response without tool calls: lines 331-334.
ModelCallFinal ==
    /\ pc = "call" /\ iteration < max_iterations /\ budget >= 1
    /\ sent' = Request
    /\ calls' = calls + 1
    /\ budget' = budget - 1
    /\ \E content \in FinalContents :
         /\ messages' = Append(messages, AssistantTurn(content))
         /\ returned' = content
    /\ pc' = "idle"
    /\ outcome' = "final"
    /\ UNCHANGED <<iteration, pending, idx, chats, last, start, at, prev>>
    /\ sent_kwargs' = RequestKwargs
    /\ UNCHANGED tools

\* A response with tool calls: lines 331, 340-356.
ModelCallTools ==
    /\ pc = "call" /\ iteration < max_iterations /\ budget >= 1
    /\ sent' = Request
    /\ calls' = calls + 1
    /\ \E tool_calls \in ToolCallLists(budget - 1) :
         /\ messages' = Append(messages, ToolCallTurn(<<>>, tool_calls))
         /\ pending' = tool_calls
         /\ budget' = budget - 1 - FaultCost * Faults(tool_calls)
    /\ idx' = 1
    /\ at' = Len(messages) + 1
    /\ pc' = "dispatch"
    /\ UNCHANGED <<iteration, returned, outcome, chats, last, start, prev>>
    /\ sent_kwargs' = RequestKwargs
    /\ UNCHANGED tools

\* One pass of `for tool_call in message.tool_calls`, lines 359-380, and,
\* after the last pass, the step of the outer for loop.
DispatchOne ==
    /\ pc = "dispatch"
    /\ LET tool_call == pending[idx]
           p == parse_arguments(tool_call.arguments)
       IN
       IF p.raised
       THEN \* json.loads raised past the except clause: chat is left
            /\ pc' = "idle"
            /\ outcome' = "dispatch_error"
            /\ last' = [NoDispatch EXCEPT !.name = tool_call.name,
                          !.arguments = tool_call.arguments, !.raised = TRUE]
            /\ UNCHANGED <<messages, iteration, idx, budget>>
       ELSE \E h \in HandlerOutcomes(tool_call.name, p.tool_args, budget) :
            LET r == execute_tool(tool_call.name, p.tool_args, h) IN
            /\ last' = [name |-> tool_call.name, arguments |-> tool_call.arguments,
                        tool_args |-> p.tool_args, invoked |-> r.invoked,
                        raised |-> r.raised, result |-> r.result, h |-> h,
                        display |-> IF r.raised THEN <<>>
                                    ELSE display_result(r.result)]   \* lines 374-375
            /\ budget' = IF h = "return" THEN budget ELSE budget - FaultCost
            /\ IF r.raised
               THEN \* an exception left execute_tool: chat is left
                    /\ pc' = "idle"
                    /\ outcome' = "dispatch_error"
                    /\ UNCHANGED <<messages, iteration, idx>>
               ELSE /\ messages' = Append(messages, ToolTurn(tool_call.id, r.result))
                    /\ idx' = idx + 1
                    /\ IF idx = Len(pending)
                       THEN iteration' = iteration + 1 /\ pc' = "call"
                       ELSE iteration' = iteration /\ pc' = "dispatch"
                    /\ UNCHANGED outcome
    /\ UNCHANGED <<pending, sent, returned, calls, chats, start, at, prev>>
    /\ UNCHANGED <<tools, sent_kwargs>>

\* A loop exit that appends the message it returns as an assistant turn.
LoopExit_appends ==
    /\ pc = "call" /\ iteration = max_iterations
    /\ returned' = LIMIT_MESSAGE
    /\ outcome' = "limit"
    /\ pc' = "idle"
    /\ messages' = Append(messages, AssistantTurn(LIMIT_MESSAGE))
    /\ UNCHANGED <<iteration, pending, idx, sent, calls, chats, budget,
                   last, start, at, prev>>
    /\ UNCHANGED <<tools, sent_kwargs>>

\* A loop exit that rolls the log back to where the chat found it.
LoopExit_rollback ==
    /\ pc = "call" /\ iteration = max_iterations
    /\ returned' = LIMIT_MESSAGE
    /\ outcome' = "limit"
    /\ pc' = "idle"
    /\ messages' = SubSeq(messages, 1, start)
    /\ UNCHANGED <<iteration, pending, idx, sent, calls, chats, budget,
                   last, start, at, prev>>
    /\ UNCHANGED <<tools, sent_kwargs>>

\* range(max_iterations) is exhausted: line 384.
LoopExit ==
    /\ pc = "call" /\ iteration = max_iterations
    /\ returned' = LIMIT_MESSAGE
    /\ outcome' = "limit"
    /\ pc' = "idle"
    /\ UNCHANGED <<messages, iteration, pending, idx, sent, calls, chats, budget,
                   last, start, at, prev>>
    /\ UNCHANGED <<tools, sent_kwargs>>

\* A clear_history that binds a local name and leaves self.messages alone.
ClearHistory_local ==
    /\ pc = "idle"
    /\ messages' = messages
    /\ start' = 0
    /\ at' = 0
    /\ UNCHANGED <<pc, iteration, pending, idx, sent, returned, outcome,
                   calls, chats, budget, last, prev>>
    /\ UNCHANGED <<tools, sent_kwargs>>

\* main on "/clear": lines 444-446, 386-389.  The indexes into the log that
\* start and at hold point nowhere afterwards.
ClearHistory ==
    /\ pc = "idle"
    /\ messages' = <<>>
    /\ start' = 0
    /\ at' = 0
    /\ UNCHANGED <<pc, iteration, pending, idx, sent, returned, outcome,
                   calls, chats, budget, last, prev>>
    /\ UNCHANGED <<tools, sent_kwargs>>

Next ==
    \/ ChatBegin
    \/ ModelCallFails
    \/ ModelCallFinal
    \/ ModelCallTools
    \/ DispatchOne
    \/ LoopExit
    \/ ClearHistory

Spec == Init /\ [][Next]_vars

(************************ structure of the log *****************************)
\* Indexes of the assistant turns of log that carry tool calls.
ToolCallIndexes(log) == {a \in 1..Len(log) : HasToolCalls(log[a])}

\* The tool-call turn at index a is directly followed by one tool turn per
\* request, the i-th carrying the i-th request's identifier, and by no
\* further tool turn.
Answered(log, a) ==
    LET tc == log[a].tool_calls IN
    /\ a + Len(tc) <= Len(log)
    /\ \A i \in 1..Len(tc) :
         /\ log[a + i].role = "tool"
         /\ log[a + i].tool_call_id = tc[i].id
    /\ a + Len(tc) < Len(log) => log[a + Len(tc) + 1].role # "tool"

\* The tool turn at index j answers exactly one request of the assistant
\* turn that immediately precedes its run of tool turns.
Answers(log, j) ==
    \E a \in ToolCallIndexes(log) :
        /\ a < j /\ j - a <= Len(log[a].tool_calls)
        /\ \A k \in (a + 1)..(j - 1) : log[k].role = "tool"
        /\ Cardinality({i \in 1..Len(log[a].tool_calls) :
                          log[a].tool_calls[i].id = log[j].tool_call_id}) = 1
        /\ log[a].tool_calls[j - a].id = log[j].tool_call_id

WellFormed(log) ==
    /\ \A a \in ToolCallIndexes(log) : Answered(log, a)
    /\ \A j \in 1..Len(log) : log[j].role = "tool" => Answers(log, j)

\* The turns the current/last chat appended, and what they hold.
ThisChat == SubSeq(messages, start + 1, Len(messages))
ToolResponses == Cardinality(ToolCallIndexes(ThisChat))
FinalTurns == {j \in 1..Len(ThisChat) :
                 ThisChat[j].role = "assistant" /\ ~HasToolCalls(ThisChat[j])}
HandlerRaised == \E j \in 1..Len(ThisChat) :
                    ThisChat[j].role = "tool" /\ ThisChat[j].content[1] = TOOL_ERROR
\* The chat has returned or raised, and clear_history has not run since.
Ended == pc = "idle" /\ outcome # "none" /\ messages # <<>>

(******************************* claims ************************************)
\* C1: a TOOL_DISPATCH step for a response with N requests appends exactly N
\* tool-result turns directly after the assistant tool-call turn, the i-th
\* with the i-th request's call identifier, whatever the names, payloads and
\* handler outcomes: once the step is over, the last tool-call turn of the
\* log is answered.
C1_Correlation ==
    (pc # "dispatch" /\ at > 0) => Answered(messages, at)

\* C2: at every MODEL_CALL, whatever chats and resets came before and however
\* they ended, every assistant turn of the request with N tool calls is
\* directly followed by exactly N tool-result turns in request order, and
\* every tool-result turn answers exactly one request of the assistant turn
\* immediately before its run.
C2_WellFormedAtModelCall == WellFormed(sent)

\* C3: a chat in which every model response carried a tool call, the model
\* call never failed and no handler raised, ends after exactly 10 model
\* calls by returning the iteration-limit message.
C3_Termination ==
    (Ended /\ outcome # "model_error" /\ ToolResponses = calls /\ ~HandlerRaised)
        => (outcome = "limit" /\ calls = max_iterations /\ returned = LIMIT_MESSAGE)

\* C4: the iteration counter is per chat: it counts the model calls of the
\* current chat only (so it is 0 when a chat enters its loop, whatever the
\* log holds and however the chat before ended), and a chat makes at least
\* one and at most 10 model calls.
C4_CeilingPerChat ==
    /\ pc = "call" => iteration = calls
    /\ pc = "dispatch" => iteration = calls - 1
    /\ calls <= max_iterations
    /\ (pc = "idle" /\ outcome # "none") => calls >= 1

\* C4 witness: a chat entered on the log an iteration-limit chat left has
\* ended after one model call.
C4_Witness ==
    /\ chats = 2 /\ prev.outcome = "limit" /\ prev.log # <<>>
    /\ pc = "idle" /\ outcome = "final" /\ calls = 1

\* The request the inner loop is at, and what its payload parses to.
Current == pending[idx]
NotAnObject(arguments) ==
    json_loads(arguments).exc # "none" \/ json_loads(arguments).value = "nondict"
ToolTurnAppended ==
    messages' = Append(messages, [role |-> "tool", tool_call_id |-> Current.id,
                                  content |-> last'.result])

\* C5: when execute_tool is called for a registered tool and the handler call
\* raises, execute_tool does not raise: it returns the error marker followed
\* by the error's description, and that text is appended as the tool-result
\* turn of the request.
C5_HandlerFailureIsText ==
    [][ ( /\ pc = "dispatch"
          /\ Current.name \in TOOLS
          /\ ~parse_arguments(Current.arguments).raised
          /\ call_handler(Current.name, parse_arguments(Current.arguments).tool_args,
                          last'.h).raised )
        => ( /\ ~last'.raised
             /\ pc' # "idle"
             /\ last'.result =
                  <<TOOL_ERROR,
                    call_handler(Current.name,
                                 parse_arguments(Current.arguments).tool_args,
                                 last'.h).value>>
             /\ ToolTurnAppended ) ]_vars

\* C5 witness: a handler that was called with its arguments raised, and the
\* log ends with the tool-result turn holding the error text.
C5_Witness ==
    /\ last.invoked /\ last.h = "raise" /\ last.tool_args = "kwargs"
    /\ last.result = <<TOOL_ERROR, "bad_arguments">>
    /\ messages # <<>>
    /\ messages[Len(messages)].role = "tool"
    /\ messages[Len(messages)].content = last.result

\* C6: when execute_tool is called with a name that is no key of TOOLS, it
\* returns the unknown-tool text, raises nothing and calls no handler, and
\* the log changes by exactly the one tool-result turn holding that text.
C6_UnknownToolFailsClosed ==
    [][ ( /\ pc = "dispatch"
          /\ Current.name \notin TOOLS
          /\ ~parse_arguments(Current.arguments).raised )
        => ( /\ ~last'.raised
             /\ ~last'.invoked
             /\ last'.result = <<UNKNOWN_TOOL, Current.name>>
             /\ ToolTurnAppended
             /\ pc' \in {"dispatch", "call"} ) ]_vars

\* C6 witness: the log ends with the unknown-tool text for delete_universe.
C6_Witness ==
    /\ last.name = "delete_universe" /\ ~last.invoked /\ ~last.raised
    /\ messages # <<>>
    /\ messages[Len(messages)].role = "tool"
    /\ messages[Len(messages)].content = <<UNKNOWN_TOOL, "delete_universe">>

\* C7: for a request whose payload does not parse as a key/value object, the
\* dispatch pass does not raise and does not end the chat: the arguments are
\* the empty argument set, the handler (of a registered tool) is called with
\* them, and a tool-result turn is appended for the request.
C7_MalformedArgumentsAreEmpty ==
    [][ (pc = "dispatch" /\ NotAnObject(Current.arguments))
        => ( /\ pc' \in {"dispatch", "call"}
             /\ ~last'.raised
             /\ last'.tool_args = "empty_dict"
             /\ (Current.name \in TOOLS => last'.invoked)
             /\ ToolTurnAppended ) ]_vars

\* A response being dispatched holds a request for an unknown tool or with a
\* payload that is no object, or a handler of it has failed already.
StepHasFault ==
    \E i \in 1..Len(pending) :
        \/ pending[i].name \notin TOOLS
        \/ NotAnObject(pending[i].arguments)
        \/ (i < idx /\ messages[at + i].content[1] = TOOL_ERROR)

\* C8: tool failures are data, not control flow: in a TOOL_DISPATCH step with
\* a failing request no pass ends the chat, every pass appends its
\* tool-result turn and goes on to the next request or, after the last, to
\* the next MODEL_CALL, and that model call's request holds the tool-result
\* turns of the step.
C8_FailuresAreData ==
    [][ /\ (pc = "dispatch" /\ StepHasFault)
           => ( /\ ToolTurnAppended
                /\ idx' = idx + 1
                /\ pc' = (IF idx = Len(pending) THEN "call" ELSE "dispatch") )
        /\ (pc = "call" /\ calls' = calls + 1 /\ at > start)
           => \A i \in 1..Len(pending) :
                 /\ sent'[1 + at + i] = messages[at + i]
                 /\ messages[at + i].role = "tool" ]_vars

\* C9: a chat whose first k responses (0 <= k <= 9) carried tool calls and
\* whose next response carried none has made exactly k+1 model calls, has
\* appended that response's content as its one assistant turn without tool
\* calls, as the last turn (nothing is dispatched after it), and has returned
\* exactly that content, also when the response was the 10th.
C9_FinalResponse ==
    /\ (Ended /\ outcome = "final")
         => ( /\ calls = ToolResponses + 1
              /\ calls <= max_iterations
              /\ ThisChat[1].role = "user"
              /\ FinalTurns = {Len(ThisChat)}
              /\ messages[Len(messages)] = [role |-> "assistant", content |-> returned]
              /\ returned \in FinalContents
              /\ returned # LIMIT_MESSAGE )
    /\ pc \in {"call", "dispatch"} => FinalTurns = {}

\* C9 witness: the 10th model call of a chat was answered without tool calls.
C9_Witness == Ended /\ outcome = "final" /\ calls = max_iterations

\* The turns of a chat that ended at the iteration limit: the user turn, then
\* 10 assistant tool-call turns, each followed by its tool-result turns.
LimitLog(log) ==
    /\ Len(log) >= 1
    /\ log[1].role = "user"
    /\ \A j \in 2..Len(log) : HasToolCalls(log[j]) \/ log[j].role = "tool"
    /\ Cardinality(ToolCallIndexes(log)) = max_iterations
    /\ WellFormed(log)
    /\ log[Len(log)].role = "tool"

\* C10: a chat that ends at the iteration limit leaves in the log every turn
\* it appended, and the chat called next appends its user turn after them:
\* its first model call is sent the system message, all those turns and the
\* new user turn.
C10_HistoryRetained ==
    /\ (Ended /\ outcome = "limit") => LimitLog(ThisChat)
    /\ (prev.outcome = "limit" /\ prev.log # <<>> /\ calls = 1)
         => ( /\ LimitLog(SubSeq(prev.log, prev.start + 1, Len(prev.log)))
              /\ Len(sent) = Len(prev.log) + 2
              /\ SubSeq(sent, 2, Len(sent) - 1) = prev.log
              /\ sent[Len(sent)].role = "user"
              /\ sent[1].role = "system" )

\* C10 witness: the first model call of a chat entered on the log of an
\* iteration-limit chat has been made.
C10_Witness ==
    /\ chats = 2 /\ prev.outcome = "limit" /\ prev.log # <<>> /\ calls = 1
    /\ Len(sent) >= 2 + 1 + 2 * max_iterations

\* log is an initial part of longer.
IsPrefix(log, longer) ==
    Len(log) <= Len(longer) /\ SubSeq(longer, 1, Len(log)) = log

\* C11: the log is append-only between resets: every step of chat (the user
\* append, an assistant append, a tool-result append, a return, an exception
\* that leaves chat) keeps the log's contents as an unchanged initial part of
\* the new contents and appends at most one turn; the only step that removes
\* turns is clear_history, and it removes all of them.
C11_AppendOnly ==
    [][ /\ (pc # "idle" \/ pc' # "idle")
           => ( /\ IsPrefix(messages, messages')
                /\ Len(messages') <= Len(messages) + 1 )
        /\ (pc = "idle" /\ pc' = "idle") => messages' = <<>> ]_vars

\* C11 witness: a chat was left by an exception with its turns still logged.
C11_Witness ==
    /\ pc = "idle" /\ outcome \in {"model_error", "dispatch_error"}
    /\ Len(messages) >= 4 /\ start > 0

\* C12: after clear_history the log is the empty sequence, whatever its size
\* was and however often clear_history runs, and the first model call of a
\* chat entered on a cleared log is sent the system message and the new user
\* turn only.
C12_Reset ==
    /\ [][ (pc = "idle" /\ pc' = "idle") => messages' = <<>> ]_vars
    /\ []( (prev.log = <<>> /\ calls = 1)
             => ( /\ Len(sent) = 2
                  /\ sent[1] = [role |-> "system", content |-> SYSTEM_PROMPT]
                  /\ sent[2].role = "user"
                  /\ sent[2].content \in UserInputs ) )

\* C12 witness: the second chat of a session, entered after clear_history
\* emptied the first chat's log, has made its first model call.
C12_Witness ==
    /\ chats = 2 /\ prev.outcome # "none" /\ prev.log = <<>>
    /\ calls = 1 /\ pc # "idle" /\ Len(sent) = 2

\* C13: truncation is display-only: the tool-result turn a dispatch pass
\* appends holds the text execute_tool returned in full, also when that text
\* is longer than the display length and what is printed is cut, and the
\* next model call is sent the log with that full text.
C13_TruncationIsDisplayOnly ==
    [][ /\ (pc = "dispatch" /\ pc' # "idle")
           => ( /\ messages' =
                     Append(messages,
                            [role |-> "tool", tool_call_id |-> Current.id,
                             content |->
                               execute_tool(Current.name,
                                            parse_arguments(Current.arguments).tool_args,
                                            last'.h).result])
                /\ last'.display =
                     (IF TextLen(last'.result) > DISPLAY_LIMIT
                      THEN <<"[:500]">> \o last'.result \o <<"...">>
                      ELSE last'.result) )
        /\ (calls' = calls + 1) => SubSeq(sent', 2, Len(sent')) = messages ]_vars

\* C13 witness: a model call was sent a log that ends with a tool-result turn
\* holding all 501 characters of a result whose display was cut.
C13_Witness ==
    /\ calls >= 2
    /\ sent[Len(sent)].role = "tool"
    /\ sent[Len(sent)].content = <<"tool_output_501">>
    /\ TextLen(sent[Len(sent)].content) = DISPLAY_LIMIT + 1
    /\ last.display = <<"[:500]", "tool_output_501", "...">>

\* C14: a failure of the model call, at any iteration, leaves chat as an
\* exception: chat is over (the call is not made again), it has returned no
\* value, and nothing was dispatched or appended after the failing call, so
\* the log is the one that call was sent.
C14_ModelFailurePropagates ==
    outcome = "model_error"
        => ( /\ pc = "idle"
             /\ returned = <<>>
             /\ calls \in 1..max_iterations
             /\ messages # <<>>
                  => ( /\ sent = <<[role |-> "system", content |-> SYSTEM_PROMPT]>>
                                 \o messages
                       /\ messages[Len(messages)].role \in {"user", "tool"}
                       /\ FinalTurns = {}
                       /\ ToolResponses = calls - 1 ) )

\* C14 witness: the third model call of a chat failed.
C14_Witness ==
    /\ outcome = "model_error" /\ pc = "idle" /\ calls = 3
    /\ messages # <<>> /\ messages[Len(messages)].role = "tool"

\* C19: a failed model call does not leave the log as the chat found it: the
\* chat's user turn and the tool-call and tool-result turns of its earlier
\* iterations stay, with no assistant reply after them, and the next chat is
\* sent that log followed by its own user turn; when the first model call
\* failed, the two user turns are adjacent.
C19_FailureLeavesTurns ==
    /\ (Ended /\ outcome = "model_error")
         => ( /\ Len(ThisChat) >= 1
              /\ ThisChat[1].role = "user"
              /\ ToolResponses = calls - 1
              /\ FinalTurns = {} )
    /\ (prev.outcome = "model_error" /\ prev.log # <<>> /\ calls = 1)
         => ( /\ Len(prev.log) > prev.start
              /\ prev.log[prev.start + 1].role = "user"
              /\ \A j \in (prev.start + 2)..Len(prev.log) :
                    HasToolCalls(prev.log[j]) \/ prev.log[j].role = "tool"
              /\ Len(sent) = Len(prev.log) + 2
              /\ SubSeq(sent, 2, Len(sent) - 1) = prev.log
              /\ sent[Len(sent)].role = "user"
              /\ Len(prev.log) = prev.start + 1 => sent[Len(sent) - 1].role = "user" )

\* C19 witness: the first model call of the chat before failed, and the next
\* chat's first model call was sent two user turns in a row.
C19_Witness ==
    /\ chats = 2 /\ prev.outcome = "model_error" /\ calls = 1
    /\ Len(sent) = 3
    /\ sent[2].role = "user" /\ sent[3].role = "user"

\* The registry entry of a name, its parameter names, and those whose type
\* carries the optional marker.
ItemOf(name) == CHOOSE i \in 1..Len(TOOLS_items) : TOOLS_items[i].name = name
ParamNames(i) ==
    {TOOLS_items[i].params[k][1] : k \in 1..Len(TOOLS_items[i].params)}
OptionalNames(i) ==
    {TOOLS_items[i].params[k][1] :
        k \in {m \in 1..Len(TOOLS_items[i].params) :
                 endswith_marker(TOOLS_items[i].params[m][2])}}
SeqRange(q) == {q[k] : k \in 1..Len(q)}

\* C15: the schema the agent holds has exactly one declaration per tool of
\* the registry and no other; in each, every parameter of the tool is a key
\* of "properties", and "required" lists, once each, exactly the parameters
\* whose type has no trailing "?", so an optional parameter is in
\* "properties" and not in "required".
C15_Schema ==
    /\ {TOOLS_items[i].name : i \in 1..Len(TOOLS_items)} = TOOLS
    /\ {tools[d].function.name : d \in 1..Len(tools)} = TOOLS
    /\ Len(tools) = Cardinality(TOOLS)
    /\ \A d \in 1..Len(tools) :
         LET f == tools[d].function
             i == ItemOf(f.name)
         IN /\ tools[d].type = "function"
            /\ f.description = TOOLS_items[i].description
            /\ f.parameters.type = "object"
            /\ DOMAIN f.parameters.properties = ParamNames(i)
            /\ SeqRange(f.parameters.required) = ParamNames(i) \ OptionalNames(i)
            /\ Len(f.parameters.required) = Cardinality(SeqRange(f.parameters.required))
            /\ OptionalNames(i) \subseteq DOMAIN f.parameters.properties
            /\ OptionalNames(i) \cap SeqRange(f.parameters.required) = {}

\* C15 witness: a model call was sent the schema, in which the declaration of
\* read requires path and only describes offset and limit.
C15_Witness ==
    /\ calls >= 1 /\ sent_kwargs.tools = tools
    /\ \E d \in 1..Len(tools) :
         /\ tools[d].function.name = "read"
         /\ tools[d].function.parameters.required = <<"path">>
         /\ DOMAIN tools[d].function.parameters.properties = {"path", "offset", "limit"}
         /\ tools[d].function.parameters.properties["offset"].type = "number"

\* C16: every model call is sent the system message first and then every
\* turn of the log in the log's order, with the schema built from the
\* registry and tool_choice "auto"; the log never holds a system turn: each
\* of its turns has role user, assistant or tool.
C16_RequestShape ==
    /\ [](\A j \in 1..Len(messages) : messages[j].role \in {"user", "assistant", "tool"})
    /\ [][ calls' = calls + 1
            => ( /\ Len(sent') = Len(messages) + 1
                 /\ sent'[1] = [role |-> "system", content |-> SYSTEM_PROMPT]
                 /\ \A j \in 1..Len(messages) : sent'[j + 1] = messages[j]
                 /\ sent_kwargs' = [tools |-> build_openai_tools,
                                    tool_choice |-> "auto"] ) ]_vars

\* C16 witness: the second model call of a chat was sent the system message,
\* the user turn, the tool-call turn and its tool-result turn, with the
\* schema and tool_choice "auto".
C16_Witness ==
    /\ calls = 2 /\ Len(sent) = 4
    /\ sent[1].role = "system" /\ sent[2].role = "user"
    /\ HasToolCalls(sent[3]) /\ sent[4].role = "tool"
    /\ sent_kwargs.tool_choice = "auto" /\ Len(sent_kwargs.tools) = Len(TOOLS_items)

\* The requests of a dispatch step are taken one at a time in the order of
\* the response: while the step runs, requests 1..idx-1 and no others have
\* their tool-result turns in the log, in that order, directly after the
\* tool-call turn, and a pass handles request idx and none other.
C17_InOrder ==
    /\ [](pc = "dispatch"
            => ( /\ idx \in 1..Len(pending)
                 /\ at > start
                 /\ messages[at].tool_calls = pending
                 /\ Len(messages) = at + idx - 1
                 /\ \A i \in 1..(idx - 1) :
                       /\ messages[at + i].role = "tool"
                       /\ messages[at + i].tool_call_id = pending[i].id ))
    /\ [][ pc = "dispatch"
            => ( /\ last'.name = Current.name
                 /\ last'.arguments = Current.arguments
                 /\ pc' = "dispatch" => (idx' = idx + 1 /\ ToolTurnAppended)
                 /\ pc' = "call" => (idx = Len(pending) /\ ToolTurnAppended)
                 /\ calls' = calls ) ]_vars

\* C17: the requests of a dispatch step are dispatched one after the other in
\* request order, each tool-result turn appended before the next handler is
\* called, and no model call is made until every request of the step has its
\* tool-result turn.
C17_SequentialDispatch ==
    /\ C17_InOrder
    /\ [][ (calls' = calls + 1 /\ at > 0) => Answered(messages, at) ]_vars

\* C18: when a chat ends at the iteration limit, the requests of its 10th
\* response have been dispatched and their tool-result turns end the log,
\* the last request the chat sent holds none of them, the advisory message
\* is returned and is in no turn of the log, and the user turn of the chat
\* called next directly follows that last tool-result turn.
C18_LimitTail ==
    /\ (Ended /\ outcome = "limit")
         => ( /\ calls = max_iterations /\ iteration = max_iterations
              /\ returned = LIMIT_MESSAGE
              /\ at > start /\ HasToolCalls(messages[at])
              /\ messages[at].tool_calls = pending
              /\ Len(messages) = at + Len(pending)
              /\ \A i \in 1..Len(pending) :
                    /\ messages[at + i].role = "tool"
                    /\ messages[at + i].tool_call_id = pending[i].id
              /\ last.name = pending[Len(pending)].name /\ ~last.raised
              /\ messages[Len(messages)].content = last.result
              /\ messages[Len(messages)].role = "tool"
              /\ sent = <<[role |-> "system", content |-> SYSTEM_PROMPT]>>
                            \o SubSeq(messages, 1, at - 1)
              /\ \A j \in 1..Len(messages) : messages[j].content # LIMIT_MESSAGE )
    /\ (prev.outcome = "limit" /\ prev.log # <<>> /\ start > 0 /\ Len(messages) > start)
         => ( /\ start = Len(prev.log)
              /\ messages[start].role = "tool"
              /\ messages[start + 1].role = "user"
              /\ SubSeq(messages, 1, start) = prev.log )

\* C18 witness: the first model call of the chat called after an
\* iteration-limit chat was sent a tool-result turn directly followed by the
\* new user turn.
C18_Witness ==
    /\ chats = 2 /\ prev.outcome = "limit" /\ calls = 1 /\ start > 0
    /\ sent[Len(sent) - 1].role = "tool" /\ sent[Len(sent)].role = "user"
    /\ Len(sent) = start + 2

====
